---------------------------- MODULE Spec2Model ----------------------------
(***************************************************************************)
(* A model of the container query library cql (ContainerQueryLibrary.h).   *)
(*                                                                         *)
(* The library is a set of stateless template functions.  The model is the *)
(* program that the unit tests are instances of: a caller owns a container *)
(* (std::vector, std::list or another push_back container such as         *)
(* std::deque) of int, makes one call of the library on it, and, for the   *)
(* lazy generator, pulls the yielded elements one by one.                  *)
(*                                                                         *)
(* Sequences are TLA+ sequences.  A std::map is the sequence of its        *)
(* entries [key, val] in iteration order, so that the order in which the   *)
(* keys are enumerated is part of the model.                               *)
(***************************************************************************)
EXTENDS Integers, Sequences, FiniteSets

(***************************************************************************)
(* Bounds of the model.                                                    *)
(***************************************************************************)
MaxLen == 3
MaxElem == 2
MaxLen2 == 2

Elem == 0..MaxElem

\* The int vector of TEST(ContainerQueryLibrary, Distinct) and DistinctLazy.
DistinctTestInput == <<11, 11, 2, 2, 3, 5, 6>>

BoundedSeqs(n) == UNION {[1..m -> Elem] : m \in 0..n}

Containers == BoundedSeqs(MaxLen) \cup {DistinctTestInput}
Containers2 == BoundedSeqs(MaxLen2)

\* IsVector / IsList distinguish three kinds of container type.
Kinds == {"vector", "list", "other"}

(***************************************************************************)
(* Caller-supplied functions, as data.                                     *)
(***************************************************************************)
Predicates ==
    {[tag |-> "even", c |-> 0]}
        \cup {[tag |-> "eq", c |-> c] : c \in Elem}
        \cup {[tag |-> "lt", c |-> c] : c \in Elem}

\* predicate(element)
Holds(predicate, v) ==
    CASE predicate.tag = "even" -> v % 2 = 0
      [] predicate.tag = "eq" -> v = predicate.c
      [] predicate.tag = "lt" -> v < predicate.c

SetFuncs == {[tag |-> "set", c |-> c] : c \in Elem} \cup {[tag |-> "inc", c |-> 1]}

\* setFunc(element): the value the element has afterwards
ApplySet(setFunc, v) ==
    CASE setFunc.tag = "set" -> setFunc.c
      [] setFunc.tag = "inc" -> v + setFunc.c

KeyFuncs == {"mod2", "half", "id"}

\* groupingMemberFunc(elem) / joiningMemberFunc(elem)
KeyOf(keyFunc, v) ==
    CASE keyFunc = "mod2" -> v % 2
      [] keyFunc = "half" -> v \div 2
      [] keyFunc = "id" -> v

\* Strict weak orderings; "mod2" and "half" have equivalent unequal elements.
Comparators == {"less", "greater", "mod2", "half"}

\* func(l, r)
Cmp(func, l, r) ==
    CASE func = "less" -> l < r
      [] func = "greater" -> l > r
      [] func = "mod2" -> (l % 2) < (r % 2)
      [] func = "half" -> (l \div 2) < (r \div 2)

(***************************************************************************)
(* Where: the loop of push_back.                                           *)
(***************************************************************************)
RECURSIVE WhereLoop(_, _, _, _)
WhereLoop(container, predicate, i, result) ==
    IF i > Len(container)
    THEN result
    ELSE WhereLoop(container, predicate, i + 1,
                   IF Holds(predicate, container[i])
                   THEN Append(result, container[i])
                   ELSE result)

\* A faulty variant: the loop starts at the second element.
WhereFromSecond(container, predicate) == WhereLoop(container, predicate, 2, <<>>)

Where(container, predicate) == WhereLoop(container, predicate, 1, <<>>)

(***************************************************************************)
(* Update with a predicate: the loop over references to the elements.      *)
(***************************************************************************)
RECURSIVE UpdateLoop(_, _, _, _)
UpdateLoop(container, predicate, setFunc, i) ==
    IF i > Len(container)
    THEN container
    ELSE UpdateLoop(IF Holds(predicate, container[i])
                    THEN [container EXCEPT ![i] = ApplySet(setFunc, container[i])]
                    ELSE container,
                    predicate, setFunc, i + 1)

\* A faulty variant: the elements are visited twice.
UpdateTwice(container, predicate, setFunc) ==
    UpdateLoop(UpdateLoop(container, predicate, setFunc, 1), predicate, setFunc, 1)

Update(container, predicate, setFunc) == UpdateLoop(container, predicate, setFunc, 1)

(***************************************************************************)
(* Delete: container.erase(std::remove_if(begin, end, predicate), end).    *)
(* std::remove_if finds the first element to remove, then moves every      *)
(* later element to keep down to the write position; it returns the write  *)
(* position.  A position is an index, Len + 1 is end().                    *)
(***************************************************************************)
RECURSIVE FindIf(_, _, _)
FindIf(s, predicate, i) ==
    IF i > Len(s) \/ Holds(predicate, s[i])
    THEN i
    ELSE FindIf(s, predicate, i + 1)

RECURSIVE RemoveIfLoop(_, _, _, _)
RemoveIfLoop(s, predicate, first, i) ==
    IF i > Len(s)
    THEN [seq |-> s, newEnd |-> first]
    ELSE IF ~Holds(predicate, s[i])
         THEN RemoveIfLoop([s EXCEPT ![first] = s[i]], predicate, first + 1, i + 1)
         ELSE RemoveIfLoop(s, predicate, first, i + 1)

RemoveIf(s, predicate) ==
    LET first == FindIf(s, predicate, 1)
    IN  IF first > Len(s)
        THEN [seq |-> s, newEnd |-> first]
        ELSE RemoveIfLoop(s, predicate, first, first + 1)

\* erase(first, end())
EraseToEnd(s, first) == SubSeq(s, 1, first - 1)

\* A faulty variant: std::remove_if without the erase.
DeleteWithoutErase(container, predicate) == RemoveIf(container, predicate).seq

Delete(container, predicate) ==
    LET r == RemoveIf(container, predicate)
    IN  EraseToEnd(r.seq, r.newEnd)

(***************************************************************************)
(* Sorting.  std::sort gives some permutation that is ordered by the       *)
(* comparator; which one, among elements the comparator holds equivalent,  *)
(* is unspecified: StdSort is the set of the possible outcomes.            *)
(* std::list::sort is stable: ListSort is the one stable outcome.          *)
(***************************************************************************)
RemoveAt(s, i) == SubSeq(s, 1, i - 1) \o SubSeq(s, i + 1, Len(s))

\* A faulty variant: any element may come next.
AnyPosition(s, func) == 1..Len(s)

\* the positions of s that no element of s precedes under func
MinimalPositions(s, func) ==
    {j \in 1..Len(s) : \A k \in 1..Len(s) : ~Cmp(func, s[k], s[j])}

RECURSIVE StdSort(_, _)
StdSort(s, func) ==
    IF s = <<>>
    THEN {<<>>}
    ELSE UNION {{<<s[i]>> \o t : t \in StdSort(RemoveAt(s, i), func)} :
                i \in MinimalPositions(s, func)}

\* x goes before the first element it precedes, so after its equivalents
RECURSIVE InsertStable(_, _, _, _)
InsertStable(sorted, x, func, i) ==
    IF i > Len(sorted) \/ Cmp(func, x, sorted[i])
    THEN SubSeq(sorted, 1, i - 1) \o <<x>> \o SubSeq(sorted, i, Len(sorted))
    ELSE InsertStable(sorted, x, func, i + 1)

RECURSIVE ListSortLoop(_, _, _, _)
ListSortLoop(s, func, i, sorted) ==
    IF i > Len(s)
    THEN sorted
    ELSE ListSortLoop(s, func, i + 1, InsertStable(sorted, s[i], func, 1))

ListSort(s, func) == ListSortLoop(s, func, 1, <<>>)

(***************************************************************************)
(* std::unique: keeps the first element of every run of equal elements,    *)
(* moving it down to the write position; returns the new end.              *)
(***************************************************************************)
RECURSIVE UniqueLoop(_, _, _)
UniqueLoop(s, result, first) ==
    IF first > Len(s)
    THEN [seq |-> s, newEnd |-> result + 1]
    ELSE IF s[result] # s[first]
         THEN UniqueLoop([s EXCEPT ![result + 1] = s[first]], result + 1, first + 1)
         ELSE UniqueLoop(s, result, first + 1)

Unique(s) ==
    IF s = <<>>
    THEN [seq |-> s, newEnd |-> 1]
    ELSE UniqueLoop(s, 1, 2)

\* A faulty variant: nothing is erased.
EraseNothing(s) == s

\* result.erase(std::unique(begin, end), end) and std::list::unique()
EraseUnique(s) ==
    LET r == Unique(s)
    IN  EraseToEnd(r.seq, r.newEnd)

(***************************************************************************)
(* OrderBy and Distinct dispatch on the container kind at compile time;    *)
(* each is the set of the results the call can give.                       *)
(***************************************************************************)
\* A faulty variant: every kind of container is sorted.
OrderByAnyKind(kind, container, func) == StdSort(container, func)

OrderBy(kind, container, func) ==
    CASE kind = "vector" -> StdSort(container, func)
      [] kind = "list" -> {ListSort(container, func)}
      [] OTHER -> {container}

\* A faulty variant: the sort is left out.
DistinctUnsorted(kind, container) ==
    CASE kind \in {"vector", "list"} -> {EraseUnique(container)}
      [] OTHER -> {container}

Distinct(kind, container) ==
    CASE kind = "vector" -> {EraseUnique(r) : r \in StdSort(container, "less")}
      [] kind = "list" -> {EraseUnique(ListSort(container, "less"))}
      [] OTHER -> {container}

(***************************************************************************)
(* std::map: the entries in ascending key order.                           *)
(***************************************************************************)
\* the position of the first entry whose key is not less than k
RECURSIVE MapLowerBound(_, _, _)
MapLowerBound(m, k, i) ==
    IF i > Len(m) \/ ~(m[i].key < k)
    THEN i
    ELSE MapLowerBound(m, k, i + 1)

\* find(k) != end()
MapContains(m, k) ==
    LET i == MapLowerBound(m, k, 1)
    IN  i <= Len(m) /\ m[i].key = k

\* m[k], for a key that is present
MapAt(m, k) == m[MapLowerBound(m, k, 1)].val

\* operator[]: a key that is absent is inserted with a default value
MapSubscript(m, k, default) ==
    LET i == MapLowerBound(m, k, 1)
    IN  IF i <= Len(m) /\ m[i].key = k
        THEN m
        ELSE SubSeq(m, 1, i - 1) \o <<[key |-> k, val |-> default]>>
                 \o SubSeq(m, i, Len(m))

(***************************************************************************)
(* GroupBy: result[groupingMemberFunc(elem)].push_back(elem)               *)
(***************************************************************************)
\* A faulty variant: the bucket is assigned, not appended to.
MapOverwrite(m, k, elem) ==
    LET m1 == MapSubscript(m, k, <<>>)
        i  == MapLowerBound(m1, k, 1)
    IN  [m1 EXCEPT ![i].val = <<elem>>]

MapPushBack(m, k, elem) ==
    LET m1 == MapSubscript(m, k, <<>>)
        i  == MapLowerBound(m1, k, 1)
    IN  [m1 EXCEPT ![i].val = Append(@, elem)]

RECURSIVE GroupByLoop(_, _, _, _)
GroupByLoop(container, groupingMemberFunc, i, result) ==
    IF i > Len(container)
    THEN result
    ELSE GroupByLoop(container, groupingMemberFunc, i + 1,
                     MapPushBack(result, KeyOf(groupingMemberFunc, container[i]),
                                 container[i]))

GroupBy(container, groupingMemberFunc) ==
    GroupByLoop(container, groupingMemberFunc, 1, <<>>)

(***************************************************************************)
(* Join: group both inputs, keep the keys of group1 that group2 has.       *)
(***************************************************************************)
EmptyPair == [first |-> <<>>, second |-> <<>>]

\* result[k] = value
MapAssign(m, k, value) ==
    LET m1 == MapSubscript(m, k, EmptyPair)
        i  == MapLowerBound(m1, k, 1)
    IN  [m1 EXCEPT ![i].val = value]

\* A faulty variant: a left join, every key of group1 is kept.
RECURSIVE JoinLoopLeft(_, _, _, _)
JoinLoopLeft(group1, group2, i, result) ==
    IF i > Len(group1)
    THEN result
    ELSE JoinLoopLeft(group1, group2, i + 1,
                      MapAssign(result, group1[i].key,
                                [first |-> group1[i].val,
                                 second |-> IF MapContains(group2, group1[i].key)
                                            THEN MapAt(group2, group1[i].key)
                                            ELSE <<>>]))

RECURSIVE JoinLoop(_, _, _, _)
JoinLoop(group1, group2, i, result) ==
    IF i > Len(group1)
    THEN result
    ELSE JoinLoop(group1, group2, i + 1,
                  IF MapContains(group2, group1[i].key)
                  THEN MapAssign(result, group1[i].key,
                                 [first |-> group1[i].val,
                                  second |-> MapAt(group2, group1[i].key)])
                  ELSE result)

Join(container1, container2, joiningMemberFunc1, joiningMemberFunc2) ==
    JoinLoop(GroupBy(container1, joiningMemberFunc1),
             GroupBy(container2, joiningMemberFunc2), 1, <<>>)

(***************************************************************************)
(* DistinctLazy: the body of the coroutine between two suspensions.        *)
(***************************************************************************)
\* A faulty variant: the search never finds the element.
NeverFound(result, element) == FALSE

\* std::find(result.begin(), result.end(), element) != result.end()
Found(result, element) == \E j \in 1..Len(result) : result[j] = element

\* the next position from i whose element is not in result; Len + 1 if none
RECURSIVE NextFresh(_, _, _)
NextFresh(container, result, i) ==
    IF i > Len(container) \/ ~Found(result, container[i])
    THEN i
    ELSE NextFresh(container, result, i + 1)

(***************************************************************************)
(* The state: the caller's container and what one call makes of it.        *)
(***************************************************************************)
VARIABLES
    kind,        \* the kind of the container's type
    container,   \* the caller's container, as it is now
    snapshot,    \* the contents the container had when the call was made
    container2,  \* the second container of a Join
    op,          \* the library function that was called, "none" before
    args,        \* the functions the call was given
    result,      \* the value the call returned (<<>> for void)
    gen,         \* the DistinctLazy coroutine: state, position, result
    consumed     \* the elements the consumer has got from the generator

vars == <<kind, container, snapshot, container2, op, args, result, gen, consumed>>

NoGen == [state |-> "none", pos |-> 0, result |-> <<>>]

Init ==
    /\ kind \in Kinds
    /\ container \in Containers
    /\ snapshot = container
    /\ container2 = <<>>
    /\ op = "none"
    /\ args = [tag |-> "none"]
    /\ result = <<>>
    /\ gen = NoGen
    /\ consumed = <<>>

CallWhere ==
    /\ op = "none"
    /\ \E predicate \in Predicates :
          /\ args' = [predicate |-> predicate]
          /\ result' = Where(container, predicate)
    /\ op' = "Where"
    /\ UNCHANGED <<kind, container, snapshot, container2, gen, consumed>>

CallUpdate ==
    /\ op = "none"
    /\ \E predicate \in Predicates, setFunc \in SetFuncs :
          /\ args' = [predicate |-> predicate, setFunc |-> setFunc]
          /\ container' = Update(container, predicate, setFunc)
    /\ op' = "Update"
    /\ UNCHANGED <<kind, snapshot, container2, result, gen, consumed>>

CallDelete ==
    /\ op = "none"
    /\ \E predicate \in Predicates :
          /\ args' = [predicate |-> predicate]
          /\ container' = Delete(container, predicate)
    /\ op' = "Delete"
    /\ UNCHANGED <<kind, snapshot, container2, result, gen, consumed>>

CallOrderBy ==
    /\ op = "none"
    /\ \E func \in Comparators :
          /\ args' = [func |-> func]
          /\ container' \in OrderBy(kind, container, func)
    /\ op' = "OrderBy"
    /\ UNCHANGED <<kind, snapshot, container2, result, gen, consumed>>

CallDistinct ==
    /\ op = "none"
    /\ result' \in Distinct(kind, container)
    /\ op' = "Distinct"
    /\ UNCHANGED <<kind, container, snapshot, container2, args, gen, consumed>>

CallGroupBy ==
    /\ op = "none"
    /\ \E groupingMemberFunc \in KeyFuncs :
          /\ args' = [groupingMemberFunc |-> groupingMemberFunc]
          /\ result' = GroupBy(container, groupingMemberFunc)
    /\ op' = "GroupBy"
    /\ UNCHANGED <<kind, container, snapshot, container2, gen, consumed>>

CallJoin ==
    /\ op = "none"
    /\ \E c2 \in Containers2, f1 \in KeyFuncs, f2 \in KeyFuncs :
          /\ container2' = c2
          /\ args' = [joiningMemberFunc1 |-> f1, joiningMemberFunc2 |-> f2]
          /\ result' = Join(container, c2, f1, f2)
    /\ op' = "Join"
    /\ UNCHANGED <<kind, container, snapshot, gen, consumed>>

\* The call makes the generator; its coroutine is suspended before the loop.
CallDistinctLazy ==
    /\ op = "none"
    /\ op' = "DistinctLazy"
    /\ gen' = [state |-> "suspended", pos |-> 0, result |-> <<>>]
    /\ UNCHANGED <<kind, container, snapshot, container2, args, result, consumed>>

\* begin() or ++ of the generator's iterator: the coroutine runs to its next
\* co_yield, or to its end.
GenResume ==
    /\ gen.state = "suspended"
    /\ LET j == NextFresh(container, gen.result, gen.pos + 1)
       IN  IF j > Len(container)
           THEN /\ gen' = [gen EXCEPT !.state = "done", !.pos = Len(container)]
                /\ UNCHANGED consumed
           ELSE /\ gen' = [gen EXCEPT !.pos = j,
                                      !.result = Append(@, container[j])]
                /\ consumed' = Append(consumed, container[j])
    /\ UNCHANGED <<kind, container, snapshot, container2, op, args, result>>

Next ==
    \/ CallWhere
    \/ CallUpdate
    \/ CallDelete
    \/ CallOrderBy
    \/ CallDistinct
    \/ CallGroupBy
    \/ CallJoin
    \/ CallDistinctLazy
    \/ GenResume

Spec == Init /\ [][Next]_vars

\* The consumer of the test: a range-for loop, which pulls until the end.
LazyNext ==
    \/ CallDistinctLazy
    \/ GenResume

LazySpec == Init /\ [][LazyNext]_vars /\ WF_vars(GenResume)

(***************************************************************************)
(* Notions the properties are stated with.  None of them is computed the   *)
(* way the library computes its results.                                   *)
(***************************************************************************)
Range(s) == {s[i] : i \in 1..Len(s)}

\* how many times v occurs in s
Count(s, v) == Cardinality({i \in 1..Len(s) : s[i] = v})

SameMultiset(a, b) ==
    /\ Len(a) = Len(b)
    /\ \A v \in Range(a) \cup Range(b) : Count(a, v) = Count(b, v)

\* the subsequence of s at the positions I, in the order of s
Pick(s, I) ==
    [j \in 1..Cardinality(I) |->
        s[CHOOSE i \in I : Cardinality({m \in I : m <= i}) = j]]

NoTwoEqual(s) == \A i, j \in 1..Len(s) : i # j => s[i] # s[j]

StrictlyAscending(s) == \A i \in 1..(Len(s) - 1) : s[i] < s[i + 1]

\* the first occurrence of every value of s, in the order of s
FirstOccurrences(s) ==
    Pick(s, {i \in 1..Len(s) : \A j \in 1..(i - 1) : s[j] # s[i]})

Keys(m) == {m[i].key : i \in 1..Len(m)}

\* the positions of s whose element has key k under keyFunc
PositionsOfKey(s, keyFunc, k) == {i \in 1..Len(s) : KeyOf(keyFunc, s[i]) = k}

\* the positions of s whose element satisfies the predicate
PositionsHolding(s, predicate) == {i \in 1..Len(s) : Holds(predicate, s[i])}

(***************************************************************************)
(* C1.  Where(S, P) returns exactly the subsequence of S of the elements   *)
(* that satisfy P: every returned element satisfies P, every element of S  *)
(* that satisfies P is returned as often as it occurs in S, the order of S *)
(* is kept, the result is no longer than S, and S is unchanged.            *)
(***************************************************************************)
C1_WhereIsTheFilteredSubsequence ==
    op = "Where" =>
        /\ result = Pick(snapshot, PositionsHolding(snapshot, args.predicate))
        /\ \A j \in 1..Len(result) : Holds(args.predicate, result[j])
        /\ \A v \in Range(snapshot) :
              Holds(args.predicate, v) => Count(result, v) = Count(snapshot, v)
        /\ Len(result) <= Len(snapshot)
        /\ container = snapshot

\* a call that kept two unequal elements, out of order of value, and dropped one
C1_Witness ==
    /\ op = "Where"
    /\ Len(snapshot) = 3
    /\ Len(result) = 2
    /\ result[1] > result[2]

(***************************************************************************)
(* C2.  GroupBy(S, key) returns a map whose keys are exactly the keys of   *)
(* the elements of S; the bucket of k is the subsequence of S of the       *)
(* elements with key k, in the order of S, so no bucket is empty and the   *)
(* buckets together hold the elements of S as often as S does; the keys    *)
(* are enumerated in ascending order.                                      *)
(***************************************************************************)
C2_GroupByPartitionsInKeyOrder ==
    op = "GroupBy" =>
        /\ Keys(result) = {KeyOf(args.groupingMemberFunc, e) : e \in Range(snapshot)}
        /\ \A i \in 1..Len(result) :
              /\ result[i].val =
                     Pick(snapshot,
                          PositionsOfKey(snapshot, args.groupingMemberFunc, result[i].key))
              /\ result[i].val # <<>>
        /\ \A v \in Range(snapshot) :
              \E i \in 1..Len(result) :
                  /\ Count(result[i].val, v) = Count(snapshot, v)
                  /\ \A j \in 1..Len(result) : j # i => Count(result[j].val, v) = 0
        /\ \A i \in 1..(Len(result) - 1) : result[i].key < result[i + 1].key

\* two buckets, the key met first in S being the greater, one bucket of two
\* unequal elements
C2_Witness ==
    /\ op = "GroupBy"
    /\ Len(result) = 2
    /\ KeyOf(args.groupingMemberFunc, snapshot[1]) = result[2].key
    /\ \E i \in 1..2 : Len(result[i].val) = 2 /\ result[i].val[1] # result[i].val[2]

(***************************************************************************)
(* C3.  The keys of Join(S1, S2, k1, k2) are exactly the keys that occur   *)
(* in both inputs; for each of them the first component is the elements of *)
(* S1 with that key in the order of S1 and the second the elements of S2   *)
(* with that key in the order of S2; a key of only one input is absent.    *)
(***************************************************************************)
C3_JoinIsTheInnerJoin ==
    op = "Join" =>
        /\ Keys(result) =
               {KeyOf(args.joiningMemberFunc1, e) : e \in Range(snapshot)}
                   \cap {KeyOf(args.joiningMemberFunc2, e) : e \in Range(container2)}
        /\ Len(result) = Cardinality(Keys(result))
        /\ \A i \in 1..Len(result) :
              /\ result[i].val.first =
                     Pick(snapshot,
                          PositionsOfKey(snapshot, args.joiningMemberFunc1, result[i].key))
              /\ result[i].val.second =
                     Pick(container2,
                          PositionsOfKey(container2, args.joiningMemberFunc2, result[i].key))

\* a key in both inputs with two elements on one side, a key of S1 only and a
\* key of S2 only
C3_Witness ==
    /\ op = "Join"
    /\ Len(result) = 1
    /\ Len(result[1].val.first) = 2
    /\ result[1].val.first[1] # result[1].val.first[2]
    /\ \E e \in Range(snapshot) :
          KeyOf(args.joiningMemberFunc1, e) \notin Keys(result)
    /\ \E e \in Range(container2) :
          KeyOf(args.joiningMemberFunc2, e) \notin Keys(result)

(***************************************************************************)
(* C4, as the specification states it.  Distinct(S) has no two equal       *)
(* elements, has every value of S exactly once, and keeps the order of the *)
(* first occurrences in S; [11,11,2,2,3,5,6] gives [11,2,3,5,6].  Stated   *)
(* for the container kinds Distinct deduplicates.                          *)
(***************************************************************************)
C4_Original ==
    (op = "Distinct" /\ kind \in {"vector", "list"}) =>
        /\ NoTwoEqual(result)
        /\ Range(result) = Range(snapshot)
        /\ result = FirstOccurrences(snapshot)
        /\ snapshot = DistinctTestInput => result = <<11, 2, 3, 5, 6>>

(***************************************************************************)
(* C4, amended.  For a vector or a list S, Distinct(S) has no two equal    *)
(* elements and has every value of S exactly once, in ascending order of   *)
(* value: the order of the first occurrences in S is kept only when that   *)
(* order is ascending; [11,11,2,2,3,5,6] gives [2,3,5,6,11].               *)
(***************************************************************************)
C4_DistinctIsAscendingNotFirstSeen ==
    (op = "Distinct" /\ kind \in {"vector", "list"}) =>
        /\ NoTwoEqual(result)
        /\ Range(result) = Range(snapshot)
        /\ \A v \in Range(snapshot) : Count(result, v) = 1
        /\ \A i, j \in 1..Len(result) : i < j => result[i] < result[j]
        /\ (result = FirstOccurrences(snapshot))
               <=> StrictlyAscending(FirstOccurrences(snapshot))
        /\ snapshot = DistinctTestInput => result = <<2, 3, 5, 6, 11>>

\* the test's input: the first occurrences are 11,2,3,5,6 and the result is not
C4_Witness ==
    /\ op = "Distinct"
    /\ kind = "list"
    /\ snapshot = DistinctTestInput
    /\ FirstOccurrences(snapshot) = <<11, 2, 3, 5, 6>>
    /\ result # FirstOccurrences(snapshot)

(***************************************************************************)
(* C5.  For a vector or a list S of totally ordered elements, Distinct(S)  *)
(* is strictly ascending, its set of values is the set of values of S, and *)
(* S is left unchanged; [11,11,2,2,3,5,6] gives [2,3,5,6,11].              *)
(***************************************************************************)
C5_DistinctSortsAndLeavesInput ==
    (op = "Distinct" /\ kind \in {"vector", "list"}) =>
        /\ StrictlyAscending(result)
        /\ Range(result) = Range(snapshot)
        /\ container = snapshot
        /\ snapshot = <<11, 11, 2, 2, 3, 5, 6>> => result = <<2, 3, 5, 6, 11>>

\* a vector with a repeated value separated by a smaller one
C5_Witness ==
    /\ op = "Distinct"
    /\ kind = "vector"
    /\ Len(snapshot) = 3
    /\ snapshot[1] = snapshot[3]
    /\ snapshot[2] < snapshot[1]
    /\ Len(result) = 2

(***************************************************************************)
(* C6.  After Delete(S, P), S is exactly the subsequence of its former     *)
(* elements that do not satisfy P, in their former order: Where(S, P) of   *)
(* the result is empty and no element that fails P is lost.                *)
(***************************************************************************)
C6_DeleteKeepsExactlyTheRest ==
    op = "Delete" =>
        /\ container =
               Pick(snapshot,
                    (1..Len(snapshot)) \ PositionsHolding(snapshot, args.predicate))
        /\ PositionsHolding(container, args.predicate) = {}
        /\ Where(container, args.predicate) = <<>>
        /\ \A v \in Range(snapshot) :
              ~Holds(args.predicate, v) => Count(container, v) = Count(snapshot, v)

\* the first element is deleted and two unequal elements behind it move down
C6_Witness ==
    /\ op = "Delete"
    /\ Len(snapshot) = 3
    /\ Holds(args.predicate, snapshot[1])
    /\ Len(container) = 2
    /\ container[1] > container[2]

(***************************************************************************)
(* C7.  For a vector or a list S and a strict weak ordering cmp, after     *)
(* OrderBy(S, cmp) S is a permutation of its former contents and for every *)
(* adjacent pair cmp(S[i+1], S[i]) is false.                               *)
(***************************************************************************)
C7_OrderBySortsAPermutation ==
    (op = "OrderBy" /\ kind \in {"vector", "list"}) =>
        /\ SameMultiset(container, snapshot)
        /\ \A i \in 1..(Len(container) - 1) :
              ~Cmp(args.func, container[i + 1], container[i])

\* a vector whose equivalent elements came out in another order than they went in
C7_Witness ==
    /\ op = "OrderBy"
    /\ kind = "vector"
    /\ container # snapshot
    /\ container # ListSort(snapshot, args.func)

(***************************************************************************)
(* C8.  Pulling from DistinctLazy(S) gives the first occurrence of every   *)
(* value of S, in the order of S: at every point the elements got so far   *)
(* are pairwise unequal and are the first occurrences of the prefix of S   *)
(* scanned so far, each pull adds at most one element and never one equal  *)
(* to an element got before, and the generator comes to its end;           *)
(* [11,11,2,2,3,5,6] gives 11,2,3,5,6.                                     *)
(***************************************************************************)
C8_YieldedSoFar ==
    op = "DistinctLazy" =>
        /\ NoTwoEqual(consumed)
        /\ consumed = FirstOccurrences(SubSeq(container, 1, gen.pos))
        /\ gen.state = "done" => consumed = FirstOccurrences(container)
        /\ (gen.state = "done" /\ container = DistinctTestInput)
               => consumed = <<11, 2, 3, 5, 6>>

C8_YieldsOnlyNew ==
    consumed' # consumed =>
        /\ Len(consumed') = Len(consumed) + 1
        /\ SubSeq(consumed', 1, Len(consumed)) = consumed
        /\ consumed'[Len(consumed')] \notin Range(consumed)

C8_DistinctLazyStreamsFirstOccurrences ==
    /\ []C8_YieldedSoFar
    /\ [][C8_YieldsOnlyNew]_vars
    /\ (gen.state = "suspended") ~> (gen.state = "done")

\* the test's input, pulled to the end
C8_Witness ==
    /\ op = "DistinctLazy"
    /\ gen.state = "done"
    /\ container = DistinctTestInput
    /\ consumed = <<11, 2, 3, 5, 6>>

(***************************************************************************)
(* C9.  Update(S, P, f) applies f exactly once to each element that        *)
(* satisfies P when visited and leaves every other element as it was; the  *)
(* length of S and the position of every element are unchanged.            *)
(***************************************************************************)
C9_UpdateAppliesOnceWhereHolds ==
    op = "Update" =>
        /\ Len(container) = Len(snapshot)
        /\ \A i \in 1..Len(snapshot) :
              container[i] =
                  IF Holds(args.predicate, snapshot[i])
                  THEN ApplySet(args.setFunc, snapshot[i])
                  ELSE snapshot[i]

\* an element is updated to a value that satisfies P again, another is left
C9_Witness ==
    /\ op = "Update"
    /\ args.setFunc.tag = "inc"
    /\ \E i \in 1..Len(snapshot) :
          /\ Holds(args.predicate, snapshot[i])
          /\ Holds(args.predicate, container[i])
          /\ container[i] = snapshot[i] + 1
    /\ \E i \in 1..Len(snapshot) : ~Holds(args.predicate, snapshot[i])

(***************************************************************************)
(* C10.  OrderBy on a container that is neither a vector nor a list does   *)
(* nothing: the container is left as it was, sorted or not.  (OrderBy      *)
(* returns void and has no throw: a call has no way to report a failure.)  *)
(***************************************************************************)
C10_OrderByOtherKindIsNoOp ==
    (op = "OrderBy" /\ kind \notin {"vector", "list"}) => container = snapshot

\* a container of another kind that is not in the comparator's order afterwards
C10_Witness ==
    /\ op = "OrderBy"
    /\ kind = "other"
    /\ \E i \in 1..(Len(container) - 1) :
          Cmp(args.func, container[i + 1], container[i])

=============================================================================
